---- MODULE Spec2Model ----
(***************************************************************************)
(* bedbuild (src/src/index.ts): the two reusable leaves beneath the        *)
(* command glue, and the commands that compose them.                       *)
(*                                                                         *)
(*   spawn(cmd, args, opts)   runs a child process, accumulates its        *)
(*                            stdout / stderr / combined output and        *)
(*                            settles a promise on 'exit' or 'error'.      *)
(*   downloadFile(url, to)    pipes an HTTP GET into a write stream,       *)
(*                            reports progress per chunk and settles a     *)
(*                            promise on 'complete' or 'error'.            *)
(*                                                                         *)
(* Each leaf is one call whose handlers are run by the event loop; the     *)
(* child process, the pipes, the HTTP response and the file system are     *)
(* the environment and act nondeterministically.  A command is a handler   *)
(* that runs from one await to the next and ends the process with exit().  *)
(***************************************************************************)
EXTENDS Integers, Sequences, FiniteSets, TLC

VARIABLES
    \* ---- spawn: the environment (child process and its pipes)
    child,        \* "none" | "running" | "failed" | "threw" | "exited"
    errorEv,      \* TRUE while an 'error' event is queued for the child
    exitEv,       \* <<>> or <<c>>: a queued 'exit' event and the code it carries
    outPipe,      \* chunks the child wrote on stdout, not yet read ('data')
    errPipe,      \* chunks the child wrote on stderr, not yet read ('data')
    \* ---- spawn: the closure of the promise executor (index.ts 70-73)
    stdout,
    stderr,
    stdCombined,
    code,
    promise,      \* "pending" | "resolved" | "rejected"
    result,       \* the value handed to resolve()
    \* ---- spawn: history
    recv,         \* the 'data' events dispatched so far, in order
    events,       \* the 'error' / 'exit' events dispatched so far, in order
    \* ---- downloadFile: the environment (request, response, write stream)
    net,          \* "idle" | "connecting" | "body" | "ended" | "failed"
    header,       \* the response's content-length header
    wbuf,         \* chunks handed to the write stream, not yet on disk
    file,         \* the bytes on disk at the destination path
    crashed,      \* TRUE once the write stream's 'error' event, which has no
                  \* handler, ended the process with an uncaught exception
    \* ---- downloadFile: the closure of the promise executor (index.ts 15-16)
    contentLength,
    downloaded,
    dlPromise,    \* "pending" | "resolved" | "rejected"
    \* ---- downloadFile: history
    body,         \* the bytes delivered by 'data' events so far, in order
    progress,     \* the values console.info reported, in order
    \* ---- the command handler (index.ts 143-360)
    cmd,          \* the command yargs dispatched, "none" when there is none
    pc,           \* "idle" | "start" | the call awaited | "exited" | "returned"
    input,        \* what the handler read of the environment, PATH and platform
    io,           \* the awaited axios.get / fs.copy: "idle" | "pending" | its outcome
    calls,        \* history: the awaited calls issued so far and how each settled
    exitCalls,    \* history: the codes exit() was called with
    said          \* TRUE once the command's success message was printed

spawnVars == <<child, errorEv, exitEv, outPipe, errPipe, stdout, stderr,
               stdCombined, code, promise, result, recv, events>>
dlVars == <<net, header, wbuf, file, crashed, contentLength,
            downloaded, dlPromise, body, progress>>
cmdVars == <<cmd, pc, input, io, calls, exitCalls, said>>
vars == <<spawnVars, dlVars, cmdVars>>

----------------------------------------------------------------------------
(* Bounds of the model *)

\* the child writes at most this many chunks in all
MaxChunks == 3
\* the largest numeric exit code the child reports
MaxExitCode == 2
\* a response body has at most this many bytes
MaxBody == 3

----------------------------------------------------------------------------
(* Values *)

\* the exit event's code when the platform reports none (exitCode is null)
Null == -1

ExitCodes == (0 .. MaxExitCode) \cup {Null}

\* A chunk is a Buffer: a sequence of bytes.  0x61 is "a"; 0xC3 0xA9 is the
\* UTF-8 encoding of U+00E9, which a pipe read may split in two chunks.
Chunks == { <<97>>, <<195>>, <<169>>, <<195, 169>> }

\* Buffer.prototype.toString(), which `string + data` applies to a Buffer:
\* UTF-8 decoding to a sequence of code points, for one- and two-byte
\* sequences; a byte that starts no valid sequence becomes U+FFFD.
RECURSIVE toString(_)
toString(data) ==
    IF data = <<>> THEN <<>>
    ELSE LET b == Head(data) IN
         IF b < 128
           THEN <<b>> \o toString(Tail(data))
         ELSE IF b >= 194 /\ b <= 223 /\ Len(data) >= 2
                 /\ data[2] >= 128 /\ data[2] <= 191
           THEN <<(b - 192) * 64 + (data[2] - 128)>> \o toString(Tail(Tail(data)))
         ELSE <<65533>> \o toString(Tail(data))

\* the promise of `new Promise((resolve, reject) => ...)`: resolve and reject
\* act on a pending promise only
Resolve(p) == IF p = "pending" THEN "resolved" ELSE p
Reject(p) == IF p = "pending" THEN "rejected" ELSE p

\* Number(x) of something that is no number
NaN == -1

\* the bytes of a response body, and the chunks 'data' events deliver
Bytes == {1, 2}
BodyChunks == { <<b>> : b \in Bytes } \cup { <<b, c>> : b \in Bytes, c \in Bytes }

\* a string of decimal digits, as code points ("0" is 48)
RECURSIVE Digits(_)
Digits(n) == IF n < 10 THEN <<48 + n>> ELSE Digits(n \div 10) \o <<48 + (n % 10)>>

\* response.headers["content-length"]: undefined, or the header's text
Undeclared == [declared |-> FALSE, text |-> <<>>]
Declared(n) == [declared |-> TRUE, text |-> Digits(n)]

\* Number(text) for a text of decimal digits: its value ("" is 0); NaN when
\* a character is no digit
RECURSIVE ParseDecimal(_, _)
ParseDecimal(text, acc) ==
    IF text = <<>> THEN acc
    ELSE IF Head(text) < 48 \/ Head(text) > 57 THEN NaN
    ELSE ParseDecimal(Tail(text), acc * 10 + (Head(text) - 48))

\* Number(undefined) is NaN, Number("") is 0
Number_UndefinedIsZero(h) ==
    IF ~h.declared THEN 0 ELSE ParseDecimal(h.text, 0)

\* Number(response.headers["content-length"])   index.ts 18
Number(h) ==
    IF ~h.declared THEN NaN ELSE ParseDecimal(h.text, 0)

\* "NaN" and "Infinity" as code points
NaNString == <<78, 97, 78>>
InfinityString == <<73, 110, 102, 105, 110, 105, 116, 121>>

\* ((downloaded / contentLength) * 100).toFixed(2)   index.ts 22
\* the quotient times 100, rounded half up to two decimals and written with
\* two decimals; a division by NaN gives "NaN", a division by 0 "Infinity"
\* (0 / 0 gives "NaN").  The rounding is that of the exact quotient: the
\* double the code computes rounds the same way unless the exact value lies
\* halfway between two hundredths, which needs a length that is a multiple
\* of 32.
downloadPercentage(n, length) ==
    IF length = NaN THEN NaNString
    ELSE IF length = 0 THEN (IF n = 0 THEN NaNString ELSE InfinityString)
    ELSE LET h == (2 * n * 10000 + length) \div (2 * length) IN
         Digits(h \div 100) \o <<46>> \o <<48 + ((h % 100) \div 10), 48 + (h % 10)>>

NoResult == [stdout |-> <<>>, stderr |-> <<>>, stdCombined |-> <<>>, code |-> Null]

\* a string as code points
EmptyString == <<>>

\* what the handler knows of its inputs before it read them
NoInput == [pat |-> EmptyString, repo |-> EmptyString, platform |-> EmptyString,
            helm |-> FALSE]

\* no command is running
CmdIdle ==
    /\ cmd = "none"
    /\ pc = "idle"
    /\ input = NoInput
    /\ io = "idle"
    /\ calls = <<>>
    /\ exitCalls = <<>>
    /\ said = FALSE

----------------------------------------------------------------------------
(* spawn: index.ts 59-91 *)

\* child_process.spawn (74) returns a running child, returns a child whose
\* launch failed (an 'error' event follows), or throws inside the executor:
\* the promise is then rejected at once and no listener is registered
LaunchOutcomes == {"running", "failed", "threw"}

SpawnInit ==
    /\ child \in LaunchOutcomes
    /\ errorEv = (child = "failed")
    /\ exitEv = <<>>
    /\ outPipe = <<>>
    /\ errPipe = <<>>
    /\ stdout = <<>>
    /\ stderr = <<>>
    /\ stdCombined = <<>>
    /\ code = 0
    /\ promise = (IF child = "threw" THEN "rejected" ELSE "pending")
    /\ result = NoResult
    /\ recv = <<>>
    /\ events = <<>>

\* chunks of one stream among the data events received
RECURSIVE OfStream(_, _)
OfStream(log, s) ==
    IF log = <<>> THEN <<>>
    ELSE (IF Head(log).stream = s THEN <<Head(log).data>> ELSE <<>>)
         \o OfStream(Tail(log), s)

\* everything the child has written so far on each stream, in order
EmittedOut == OfStream(recv, "stdout") \o outPipe
EmittedErr == OfStream(recv, "stderr") \o errPipe

\* the child writes a chunk on its stdout
ChildWritesStdout ==
    /\ child = "running"
    /\ Len(EmittedOut) + Len(EmittedErr) < MaxChunks
    /\ \E data \in Chunks : outPipe' = Append(outPipe, data)
    /\ UNCHANGED <<child, errorEv, exitEv, errPipe, stdout, stderr,
                   stdCombined, code, promise, result, recv, events>>
    /\ UNCHANGED <<dlVars, cmdVars>>

\* the child writes a chunk on its stderr
ChildWritesStderr ==
    /\ child = "running"
    /\ Len(EmittedOut) + Len(EmittedErr) < MaxChunks
    /\ \E data \in Chunks : errPipe' = Append(errPipe, data)
    /\ UNCHANGED <<child, errorEv, exitEv, outPipe, stdout, stderr,
                   stdCombined, code, promise, result, recv, events>>
    /\ UNCHANGED <<dlVars, cmdVars>>

\* the child ends, with a code or (killed by a signal) with none; what it
\* wrote may still sit in the pipes
ChildExits ==
    /\ child = "running"
    /\ child' = "exited"
    /\ \E exitCode \in ExitCodes : exitEv' = <<exitCode>>
    /\ UNCHANGED <<errorEv, outPipe, errPipe, stdout, stderr, stdCombined,
                   code, promise, result, recv, events>>
    /\ UNCHANGED <<dlVars, cmdVars>>

\* after a failed launch and its 'error' event, an 'exit' event may or may
\* not follow
ExitAfterError ==
    /\ child = "failed"
    /\ ~errorEv
    /\ exitEv = <<>>
    /\ \A i \in 1 .. Len(events) : events[i].type # "exit"
    /\ \E exitCode \in ExitCodes : exitEv' = <<exitCode>>
    /\ UNCHANGED <<child, errorEv, outPipe, errPipe, stdout, stderr,
                   stdCombined, code, promise, result, recv, events>>
    /\ UNCHANGED <<dlVars, cmdVars>>

\* child.stdout.on("data", ...)   index.ts 75-78
OnStdoutData ==
    /\ outPipe # <<>>
    /\ LET data == Head(outPipe) IN
         /\ stdout' = stdout \o toString(data)
         /\ stdCombined' = stdCombined \o toString(data)
         /\ recv' = Append(recv, [stream |-> "stdout", data |-> data])
    /\ outPipe' = Tail(outPipe)
    /\ UNCHANGED <<child, errorEv, exitEv, errPipe, stderr, code, promise,
                   result, events>>
    /\ UNCHANGED <<dlVars, cmdVars>>

\* a stderr handler that feeds only its own buffer
OnStderrData_OwnBufferOnly ==
    /\ errPipe # <<>>
    /\ LET data == Head(errPipe) IN
         /\ stderr' = stderr \o toString(data)
         /\ recv' = Append(recv, [stream |-> "stderr", data |-> data])
    /\ errPipe' = Tail(errPipe)
    /\ UNCHANGED <<child, errorEv, exitEv, outPipe, stdout, stdCombined, code,
                   promise, result, events>>
    /\ UNCHANGED <<dlVars, cmdVars>>

\* child.stderr.on("data", ...)   index.ts 79-82
OnStderrData ==
    /\ errPipe # <<>>
    /\ LET data == Head(errPipe) IN
         /\ stderr' = stderr \o toString(data)
         /\ stdCombined' = stdCombined \o toString(data)
         /\ recv' = Append(recv, [stream |-> "stderr", data |-> data])
    /\ errPipe' = Tail(errPipe)
    /\ UNCHANGED <<child, errorEv, exitEv, outPipe, stdout, code, promise,
                   result, events>>
    /\ UNCHANGED <<dlVars, cmdVars>>

\* an error handler that reports a failed launch as an exit with code 1
OnError_ResolvesWithCode ==
    /\ errorEv
    /\ errorEv' = FALSE
    /\ promise' = Resolve(promise)
    /\ result' = IF promise = "pending"
                   THEN [stdout |-> stdout, stderr |-> stderr,
                         stdCombined |-> stdCombined, code |-> 1]
                   ELSE result
    /\ events' = Append(events, [type |-> "error", code |-> Null])
    /\ UNCHANGED <<child, exitEv, outPipe, errPipe, stdout, stderr,
                   stdCombined, code, recv>>
    /\ UNCHANGED <<dlVars, cmdVars>>

\* child.on("error", ...)   index.ts 83-85
OnError ==
    /\ errorEv
    /\ errorEv' = FALSE
    /\ promise' = Reject(promise)
    /\ events' = Append(events, [type |-> "error", code |-> Null])
    /\ UNCHANGED <<child, exitEv, outPipe, errPipe, stdout, stderr,
                   stdCombined, code, result, recv>>
    /\ UNCHANGED <<dlVars, cmdVars>>

\* an exit handler that stores the event's code as it comes, null included
OnExit_NoDefault ==
    /\ exitEv # <<>>
    /\ LET exitCode == Head(exitEv)
       IN /\ code' = exitCode
          /\ promise' = Resolve(promise)
          /\ result' = IF promise = "pending"
                         THEN [stdout |-> stdout, stderr |-> stderr,
                               stdCombined |-> stdCombined, code |-> exitCode]
                         ELSE result
          /\ events' = Append(events, [type |-> "exit", code |-> exitCode])
    /\ exitEv' = <<>>
    /\ UNCHANGED <<child, errorEv, outPipe, errPipe, stdout, stderr,
                   stdCombined, recv>>
    /\ UNCHANGED <<dlVars, cmdVars>>

\* an exit handler that resolves only when the event carries a numeric code
OnExit_NumericOnly ==
    /\ exitEv # <<>>
    /\ LET exitCode == Head(exitEv)
           newCode == IF exitCode # Null THEN exitCode ELSE code
           p == IF exitCode # Null THEN Resolve(promise) ELSE promise
       IN /\ code' = newCode
          /\ promise' = p
          /\ result' = IF promise = "pending" /\ p = "resolved"
                         THEN [stdout |-> stdout, stderr |-> stderr,
                               stdCombined |-> stdCombined, code |-> newCode]
                         ELSE result
          /\ events' = Append(events, [type |-> "exit", code |-> exitCode])
    /\ exitEv' = <<>>
    /\ UNCHANGED <<child, errorEv, outPipe, errPipe, stdout, stderr,
                   stdCombined, recv>>
    /\ UNCHANGED <<dlVars, cmdVars>>

\* child.on("exit", ...)   index.ts 86-89
OnExit ==
    /\ exitEv # <<>>
    /\ LET exitCode == Head(exitEv)
           newCode == IF exitCode # Null THEN exitCode ELSE code
       IN /\ code' = newCode
          /\ promise' = Resolve(promise)
          /\ result' = IF promise = "pending"
                         THEN [stdout |-> stdout, stderr |-> stderr,
                               stdCombined |-> stdCombined, code |-> newCode]
                         ELSE result
          /\ events' = Append(events, [type |-> "exit", code |-> exitCode])
    /\ exitEv' = <<>>
    /\ UNCHANGED <<child, errorEv, outPipe, errPipe, stdout, stderr,
                   stdCombined, recv>>
    /\ UNCHANGED <<dlVars, cmdVars>>

SpawnNext ==
    \/ ChildWritesStdout
    \/ ChildWritesStderr
    \/ ChildExits
    \/ ExitAfterError
    \/ OnStdoutData
    \/ OnStderrData
    \/ OnError
    \/ OnExit

\* no download is under way
DlIdle ==
    /\ net = "idle"
    /\ header = Undeclared
    /\ wbuf = <<>>
    /\ file = <<>>
    /\ crashed = FALSE
    /\ contentLength = 0
    /\ downloaded = 0
    /\ dlPromise = "pending"
    /\ body = <<>>
    /\ progress = <<>>

\* one spawn call, and no download
SpawnSpecInit == SpawnInit /\ DlIdle /\ CmdIdle

SpawnSpec == SpawnSpecInit /\ [][SpawnNext]_vars

\* The event loop runs the handler of every queued event: a queued 'error',
\* 'exit' or 'data' event is dispatched eventually.  Nothing makes the child
\* write or end.
SpawnFairSpec ==
    /\ SpawnSpec
    /\ WF_vars(OnError)
    /\ WF_vars(OnExit)
    /\ WF_vars(OnStdoutData)
    /\ WF_vars(OnStderrData)

----------------------------------------------------------------------------
(* spawn: the claims *)

\* the string a sequence of chunks adds up to, chunk by chunk
RECURSIVE Str(_)
Str(chunks) ==
    IF chunks = <<>> THEN <<>>
    ELSE toString(Head(chunks)) \o Str(Tail(chunks))

RECURSIVE DataOf(_)
DataOf(log) ==
    IF log = <<>> THEN <<>> ELSE <<Head(log).data>> \o DataOf(Tail(log))

ExitDispatched == \E i \in 1 .. Len(events) : events[i].type = "exit"
ErrorDispatched == \E i \in 1 .. Len(events) : events[i].type = "error"

\* C1: a resolved spawn call's result holds every chunk the child wrote:
\* result.stdout is all of the child's stdout, result.stderr all of its
\* stderr, and result.stdCombined holds both, whatever the order of the
\* 'data' events and the 'exit' event.
C1_ResultHoldsAllOutput ==
    promise = "resolved" =>
        /\ result.stdout = Str(EmittedOut)
        /\ result.stderr = Str(EmittedErr)
        /\ Len(result.stdCombined) = Len(Str(EmittedOut)) + Len(Str(EmittedErr))

\* C2: at every moment stdout is the stdout chunks received so far in order,
\* stderr the stderr chunks received so far in order, and stdCombined all
\* chunks received so far from both streams in the order of their arrival.
C2_BuffersKeepArrivalOrder ==
    /\ stdout = Str(OfStream(recv, "stdout"))
    /\ stderr = Str(OfStream(recv, "stderr"))
    /\ stdCombined = Str(DataOf(recv))

\* C2's case: stderr, stdout, stderr arrived in that order, and the combined
\* buffer is not stdout followed by stderr.
C2_Witness ==
    /\ Len(recv) = 3
    /\ recv[1].stream = "stderr"
    /\ recv[2].stream = "stdout"
    /\ recv[3].stream = "stderr"
    /\ stdCombined # stdout \o stderr

\* C3: the call is resolved only once the 'exit' event was dispatched, and
\* the resolved code is the code that event carried, or 0 when it carried
\* none.
C3_ResolvesOnExitWithItsCode ==
    promise = "resolved" =>
        \E i \in 1 .. Len(events) :
            /\ events[i].type = "exit"
            /\ result.code = IF events[i].code = Null THEN 0 ELSE events[i].code

\* C3's case: data arrived, then the child was killed by a signal and the
\* exit event carried no code.
C3_Witness ==
    /\ promise = "resolved"
    /\ recv # <<>>
    /\ events = <<[type |-> "exit", code |-> Null]>>
    /\ result.code = 0

\* C4: once the 'error' event of a failed launch was dispatched, or the
\* launch threw, the call is rejected and stays so whatever follows; a child
\* that started and exited with a nonzero code resolves the call with that
\* code.
C4_LaunchFailureRejectsExitResolves ==
    /\ ErrorDispatched => promise = "rejected"
    /\ child = "threw" => promise = "rejected"
    /\ \A i \in 1 .. Len(events) :
          (child = "exited" /\ events[i].type = "exit"
              /\ events[i].code # Null /\ events[i].code # 0)
          => (promise = "resolved" /\ result.code = events[i].code)

\* C4's case: the launch failed, 'error' was dispatched, and an 'exit' event
\* followed it.
C4_Witness ==
    /\ child = "failed"
    /\ Len(events) = 2
    /\ events[1].type = "error"
    /\ events[2].type = "exit"
    /\ promise = "rejected"

\* C5: a settled call never changes again (it neither resolves and rejects
\* nor settles twice), and once the child failed to launch or ended the call
\* is eventually settled.
C5_SettlesExactlyOnce ==
    /\ [][promise # "pending" => (promise' = promise /\ result' = result)]_vars
    /\ (child \in {"failed", "threw", "exited"}) ~> (promise # "pending")

\* C5's case: reject() and then resolve() were both called on the one
\* promise.
C5_Witness ==
    /\ ErrorDispatched
    /\ ExitDispatched
    /\ promise # "pending"


----------------------------------------------------------------------------
(* downloadFile: index.ts 11-28 *)

\* no child process is under way
SpawnIdle ==
    /\ child = "none"
    /\ errorEv = FALSE
    /\ exitEv = <<>>
    /\ outPipe = <<>>
    /\ errPipe = <<>>
    /\ stdout = <<>>
    /\ stderr = <<>>
    /\ stdCombined = <<>>
    /\ code = 0
    /\ promise = "pending"
    /\ result = NoResult
    /\ recv = <<>>
    /\ events = <<>>

\* request.get(url), .pipe(fs.createWriteStream(to)), the two counters and
\* the four handlers   index.ts 13-26
DlInit ==
    /\ net = "connecting"
    /\ header = Undeclared
    /\ wbuf = <<>>
    /\ file = <<>>
    /\ crashed = FALSE
    /\ contentLength = 0
    /\ downloaded = 0
    /\ dlPromise = "pending"
    /\ body = <<>>
    /\ progress = <<>>

Headers == {Undeclared} \cup { Declared(n) : n \in 0 .. MaxBody }

\* fabReq.on("response", ...)   index.ts 17-19
OnResponse(h) ==
    contentLength' = Number(h)

\* a data handler that counts chunks, not bytes
OnData_CountsChunks(chunk) ==
    /\ downloaded' = downloaded + 1
    /\ progress' = Append(progress, downloadPercentage(downloaded + 1, contentLength))

\* fabReq.on("data", ...)   index.ts 20-24
OnData(chunk) ==
    /\ downloaded' = downloaded + Len(chunk)
    /\ progress' = Append(progress,
                          downloadPercentage(downloaded + Len(chunk), contentLength))

\* a completion handler that resolves only a download of the declared length
OnComplete_IfLengthReached ==
    dlPromise' = IF downloaded = contentLength THEN Resolve(dlPromise) ELSE dlPromise

\* fabReq.on("complete", () => resolve())   index.ts 25
OnComplete ==
    dlPromise' = Resolve(dlPromise)

\* fabReq.on("error", err => reject(err))   index.ts 26
OnRequestError ==
    dlPromise' = Reject(dlPromise)

\* the response's status line and headers arrive: 'response'
ResponseArrives ==
    /\ ~crashed
    /\ net = "connecting"
    /\ net' = "body"
    /\ \E h \in Headers :
          /\ header' = h
          /\ OnResponse(h)
    /\ UNCHANGED <<wbuf, file, crashed, downloaded, dlPromise, body, progress>>
    /\ UNCHANGED <<spawnVars, cmdVars>>

\* a chunk of the body arrives: 'data' runs the pipe's listener, which hands
\* the chunk to the write stream, and then the handler of index.ts 20.  A
\* body with a declared length never exceeds it.
DataArrives ==
    /\ ~crashed
    /\ net = "body"
    /\ \E chunk \in BodyChunks :
          /\ Len(body) + Len(chunk) <= MaxBody
          /\ header.declared => Len(body) + Len(chunk) <= Number(header)
          /\ wbuf' = Append(wbuf, chunk)
          /\ body' = body \o chunk
          /\ OnData(chunk)
    /\ UNCHANGED <<net, header, file, crashed, contentLength, dlPromise>>
    /\ UNCHANGED <<spawnVars, cmdVars>>

\* the body ends ('end', which request answers with 'complete' when no
\* callback was given). A connection that closes before the declared length
\* was reached ends the body here too on some Node versions, and is an
\* 'error' (RequestFails) on others
BodyEnds ==
    /\ ~crashed
    /\ net = "body"
    /\ net' = "ended"
    /\ OnComplete
    /\ UNCHANGED <<header, wbuf, file, crashed, contentLength, downloaded,
                   body, progress>>
    /\ UNCHANGED <<spawnVars, cmdVars>>

\* the request fails: no connection, or the connection breaks before the
\* body ended ('error')
RequestFails ==
    /\ ~crashed
    /\ net \in {"connecting", "body"}
    /\ net' = "failed"
    /\ OnRequestError
    /\ UNCHANGED <<header, wbuf, file, crashed, contentLength, downloaded,
                   body, progress>>
    /\ UNCHANGED <<spawnVars, cmdVars>>

\* the write stream puts its oldest buffered chunk on disk
FileWrite ==
    /\ ~crashed
    /\ wbuf # <<>>
    /\ file' = file \o Head(wbuf)
    /\ wbuf' = Tail(wbuf)
    /\ UNCHANGED <<net, header, crashed, contentLength, downloaded, dlPromise,
                   body, progress>>
    /\ UNCHANGED <<spawnVars, cmdVars>>

\* opening the destination or writing a buffered chunk fails: the write
\* stream emits 'error'.  downloadFile gives the write stream no 'error'
\* handler (index.ts 14), so the event is thrown as an uncaught exception
\* and the process ends with the promise as it was.
FileError ==
    /\ ~crashed
    /\ file = <<>> \/ wbuf # <<>>
    /\ crashed' = TRUE
    /\ UNCHANGED <<net, header, wbuf, file, contentLength, downloaded,
                   dlPromise, body, progress>>
    /\ UNCHANGED <<spawnVars, cmdVars>>

DlNext ==
    \/ ResponseArrives
    \/ DataArrives
    \/ BodyEnds
    \/ RequestFails
    \/ FileWrite
    \/ FileError

\* one downloadFile call, and no child process
DownloadSpecInit == DlInit /\ SpawnIdle /\ CmdIdle

DownloadSpec == DownloadSpecInit /\ [][DlNext]_vars

----------------------------------------------------------------------------
(* downloadFile: the claims *)

\* C6: once the request failed or a write to the destination failed, the
\* call is rejected: it is neither resolved nor left pending.
C6_FailureRejects ==
    (net = "failed" \/ crashed) => dlPromise = "rejected"

\* C7: once the call is resolved every chunk received is on disk: the
\* destination file holds exactly the bytes of the body.
C7_ResolvedMeansFileComplete ==
    dlPromise = "resolved" => (wbuf = <<>> /\ file = body)

\* C8: with or without a declared content-length, once the body has ended
\* or the request has signalled an error the call is settled.
C8_EndOrErrorSettles ==
    /\ net = "ended" => dlPromise = "resolved"
    /\ net = "failed" => dlPromise = "rejected"

\* C8's case: a body without content-length arrived in two chunks and ended.
C8_Witness ==
    /\ ~header.declared
    /\ net = "ended"
    /\ Len(progress) = 2
    /\ dlPromise = "resolved"

\* C9: when a content-length L > 0 was declared and the chunks received add
\* up to L bytes, the last progress value reported is "100.00".
C9_FinalProgressIs100 ==
    (header.declared /\ Number(header) > 0 /\ Len(body) = Number(header))
    => (progress # <<>> /\ progress[Len(progress)] = <<49, 48, 48, 46, 48, 48>>)

\* C9's case: a body of three bytes with content-length 3 arrived as a chunk
\* of two bytes and a chunk of one.
C9_Witness ==
    /\ header = Declared(3)
    /\ Len(body) = 3
    /\ Len(progress) = 2
    /\ progress[1] = <<54, 54, 46, 54, 55>>
    /\ progress[2] = <<49, 48, 48, 46, 48, 48>>

\* C10: when the response declares no content-length every value reported
\* is the sentinel "NaN", a number is reported only under a declared
\* content-length, and the call is resolved when the body ends.
C10_NoLengthReportsSentinel ==
    /\ (net # "connecting" /\ ~header.declared) =>
          /\ \A i \in 1 .. Len(progress) : progress[i] = NaNString
          /\ net = "ended" => dlPromise = "resolved"
    /\ (\E i \in 1 .. Len(progress) : progress[i] # NaNString) => header.declared

\* C10's case: a body without content-length arrived in chunks of different
\* sizes, each reported as "NaN", and the call resolved.
C10_Witness ==
    /\ net = "ended"
    /\ ~header.declared
    /\ body = <<1, 2, 2>>
    /\ progress = <<NaNString, NaNString>>
    /\ dlPromise = "resolved"


----------------------------------------------------------------------------
(* the commands: index.ts 143-360, with exit (97-107), getLatestGitTag     *)
(* (49-57) and getFabrikateVersion (109-141)                               *)

\* strings, as code points
Str_http == <<104, 116, 116, 112>>
Str_httpSlashes == <<104, 116, 116, 112, 58, 47, 47>>
Str_httpsSlashes == <<104, 116, 116, 112, 115, 58, 47, 47>>
Str_windows == <<119, 105, 110, 100, 111, 119, 115>>
Str_msys == <<109, 115, 121, 115>>
Str_darwin == <<100, 97, 114, 119, 105, 110>>
Str_linux == <<108, 105, 110, 117, 120>>
Str_SemVerV2 == <<83, 101, 109, 86, 101, 114, 58, 34, 118, 50>>

\* the values the environment gives: $ACCESS_TOKEN_SECRET and $REPO (unset
\* reads as the empty string: both fail the same tests), process.platform,
\* and what the helm client prints
Pats == { EmptyString, <<116>> }
Repos == { EmptyString, <<103, 105, 116, 64, 104, 58, 114>>, <<104, 116, 116, 112, 115, 58, 47, 47, 104, 47, 114>>, <<104, 116, 116, 112, 120>> }
Platforms == { <<108, 105, 110, 117, 120>>, <<100, 97, 114, 119, 105, 110>>, <<119, 105, 110, 51, 50>>, <<102, 114, 101, 101, 98, 115, 100>> }
HelmChunks == { <<83, 101, 109, 86, 101, 114, 58, 34>>, <<118, 50>>, <<118, 51>> }

\* a letter's lower case, for the i flag of a regular expression
Lower(c) == IF c >= 65 /\ c <= 90 THEN c + 32 ELSE c

\* str.match(/pat/i) for a pattern of literal characters: pat occurs
\* somewhere in str, whatever the case of the letters
Matches(str, pat) ==
    \E i \in 1 .. (Len(str) - Len(pat) + 1) :
        \A k \in 1 .. Len(pat) : Lower(str[i + k - 1]) = Lower(pat[k])

\* str.match(/^pat/i) for a pattern of literal characters
MatchesAtStart(str, pat) ==
    /\ Len(str) >= Len(pat)
    /\ \A k \in 1 .. Len(pat) : Lower(str[k]) = Lower(pat[k])

\* repo.match(/^https?/i)   index.ts 332
MatchesHttp(repo) == MatchesAtStart(repo, Str_http)

\* hostPlatform of download_fab (index.ts 245-251) and of download_spk
\* (index.ts 290-296): TRUE when it is not undefined
hostPlatformFab(platform) ==
    \/ Matches(platform, Str_windows)
    \/ Matches(platform, Str_darwin)
    \/ Matches(platform, Str_linux)

hostPlatformSpk(platform) ==
    \/ Matches(platform, Str_windows) \/ Matches(platform, Str_msys)
    \/ Matches(platform, Str_darwin)
    \/ Matches(platform, Str_linux)

\* assertIsTruthyString(value)   index.ts 40-47: TRUE when it does not throw
assertIsTruthyString(value) == value # EmptyString

\* how an axios.get of a releases page ends: rejected (no response, or a
\* status outside 2xx), or resolved with status 200 and a non-empty
\* tag_name, with status 200 and the tag_name "", with status 200 and no
\* string tag_name, or with another 2xx status
LookupOutcomes == {"rejected", "200 tag_name", "200 empty tag_name",
                   "200 no tag_name", "non-200"}
CopyOutcomes == {"resolved", "rejected"}

\* getLatestGitTag(releasesPage), once axios.get settled   index.ts 49-57:
\* "exit" (it called exit(1)), "rejected" (axios.get rejected or
\* assertHasTagName threw) or "resolved" (it returned data.tag_name)
getLatestGitTag(outcome) ==
    CASE outcome = "rejected" -> "rejected"
      [] outcome = "non-200" -> "exit"
      [] outcome = "200 no tag_name" -> "rejected"
      [] OTHER -> "resolved"

\* getFabrikateVersion(), once axios.get settled   index.ts 109-141:
\* "exit" (its .then called exit(1) for a status other than 200), "rejected"
\* (axios.get rejected or assertHasTagName threw, and its own .catch then
\* calls exit(1)) or "resolved" (it returned data.tag_name)
getFabrikateVersion(outcome) ==
    CASE outcome \in {"200 tag_name", "200 empty tag_name"} -> "resolved"
      [] outcome = "non-200" -> "exit"
      [] OTHER -> "rejected"

SpawnSteps == {"helm version", "helm init", "unzip", "git clone", "git pull"}
IoSteps == {"copy", "lookup"}

\* an awaited call, as issued
Call(name) == [name |-> name, outcome |-> "pending", code |-> Null,
               exit |-> <<>>, matched |-> FALSE]

\* the code of the 'exit' event dispatched for the current child, if any
ExitSeen ==
    LET ex == SelectSeq(events, LAMBDA e : e.type = "exit")
    IN IF ex = <<>> THEN <<>> ELSE <<ex[1].code>>

\* the history once the awaited spawn call settled
SpawnSettled(matched) ==
    [calls EXCEPT ![Len(calls)] =
        [name |-> @.name, outcome |-> promise,
         code |-> IF promise = "resolved" THEN result.code ELSE Null,
         exit |-> ExitSeen, matched |-> matched]]

\* the history once the awaited download, lookup or copy settled
Settled(outcome) ==
    [calls EXCEPT ![Len(calls)] = [@ EXCEPT !.outcome = outcome]]

\* exit(code, message)   index.ts 97-107: process.exit never returns
exit(c, message, log) ==
    /\ exitCalls' = Append(exitCalls, c)
    /\ pc' = "exited"
    /\ said' = (said \/ (message /\ c = 0))
    /\ calls' = log
    /\ UNCHANGED <<io, spawnVars, dlVars>>

\* the handler returns without calling exit
Returns(log) ==
    /\ pc' = "returned"
    /\ calls' = log
    /\ UNCHANGED <<exitCalls, said, io, spawnVars, dlVars>>

\* await spawn(...)   index.ts 59-74: a new child and a new closure
Spawns(name, log) ==
    /\ pc' = name
    /\ calls' = Append(log, Call(name))
    /\ child' \in LaunchOutcomes
    /\ errorEv' = (child' = "failed")
    /\ exitEv' = <<>>
    /\ outPipe' = <<>>
    /\ errPipe' = <<>>
    /\ stdout' = <<>>
    /\ stderr' = <<>>
    /\ stdCombined' = <<>>
    /\ code' = 0
    /\ promise' = (IF child' = "threw" THEN "rejected" ELSE "pending")
    /\ result' = NoResult
    /\ recv' = <<>>
    /\ events' = <<>>
    /\ UNCHANGED <<exitCalls, said, io, dlVars>>

\* await downloadFile(...)   index.ts 11-16
Downloads(log) ==
    /\ pc' = "download"
    /\ calls' = Append(log, Call("download"))
    /\ net' = "connecting"
    /\ header' = Undeclared
    /\ wbuf' = <<>>
    /\ file' = <<>>
    /\ crashed' = FALSE
    /\ contentLength' = 0
    /\ downloaded' = 0
    /\ dlPromise' = "pending"
    /\ body' = <<>>
    /\ progress' = <<>>
    /\ UNCHANGED <<exitCalls, said, io, spawnVars>>

\* await axios.get(...) (index.ts 50, 123) or await fs.copy(...) (181)
Requests(name, log) ==
    /\ pc' = name
    /\ calls' = Append(log, Call(name))
    /\ io' = "pending"
    /\ UNCHANGED <<exitCalls, said, spawnVars, dlVars>>

\* the handler resumes after the call it awaited: the call has settled and
\* the process is alive
Resumes(name) ==
    /\ pc = name
    /\ ~crashed
    /\ CASE name \in SpawnSteps -> promise # "pending"
         [] name = "download" -> dlPromise # "pending"
         [] OTHER -> io # "pending"

\* the handler waits: the process is alive and the call it awaits is pending
Awaiting ==
    /\ ~crashed
    /\ \/ pc \in SpawnSteps /\ promise = "pending"
       \/ pc = "download" /\ dlPromise = "pending"
       \/ pc \in IoSteps /\ io = "pending"


Commands == {"verify_access_token", "verify_repo", "init", "helm_init",
             "get_fab_version", "download_fab", "download_spk", "git_connect"}

\* index.ts 149-158
verify_access_token ==
    /\ cmd = "verify_access_token"
    /\ pc = "start"
    /\ \E pat \in Pats :
          /\ input' = [input EXCEPT !.pat = pat]
          /\ IF pat = EmptyString
               THEN exit(1, TRUE, calls)
               ELSE exit(0, TRUE, calls)
    /\ UNCHANGED cmd

\* index.ts 164-171
verify_repo ==
    /\ cmd = "verify_repo"
    /\ pc = "start"
    /\ \E repo \in Repos :
          /\ input' = [input EXCEPT !.repo = repo]
          /\ IF repo = EmptyString
               THEN exit(1, TRUE, calls)
               ELSE exit(0, TRUE, calls)
    /\ UNCHANGED cmd

\* index.ts 177-181, up to await fs.copy
init ==
    /\ cmd = "init"
    /\ pc = "start"
    /\ Requests("copy", calls)
    /\ UNCHANGED <<cmd, input>>

\* index.ts 181-185, after fs.copy
init_copied ==
    /\ cmd = "init"
    /\ Resumes("copy")
    /\ IF io = "rejected"
         THEN exit(1, TRUE, Settled("rejected"))
         ELSE exit(0, TRUE, Settled("resolved"))
    /\ UNCHANGED <<cmd, input>>

\* index.ts 192-200, up to await spawn("helm", ["version"])
helm_init ==
    /\ cmd = "helm_init"
    /\ pc = "start"
    /\ \E helm \in BOOLEAN :
          /\ input' = [input EXCEPT !.helm = helm]
          /\ IF ~helm
               THEN exit(1, TRUE, calls)
               ELSE Spawns("helm version", calls)
    /\ UNCHANGED cmd

\* a handler that does not look at the output of `helm version`
helm_init_version_NoVersionCheck ==
    /\ cmd = "helm_init"
    /\ Resumes("helm version")
    /\ LET matched == promise = "resolved"
                      /\ Matches(result.stdCombined, Str_SemVerV2)
           log == SpawnSettled(matched)
       IN IF promise = "rejected" THEN exit(1, TRUE, log)
          ELSE Spawns("helm init", log)
    /\ UNCHANGED <<cmd, input>>

\* index.ts 200-211, after `helm version`
helm_init_version ==
    /\ cmd = "helm_init"
    /\ Resumes("helm version")
    /\ LET matched == promise = "resolved"
                      /\ Matches(result.stdCombined, Str_SemVerV2)
           log == SpawnSettled(matched)
       IN IF promise = "rejected" THEN exit(1, TRUE, log)
          ELSE IF ~matched THEN exit(1, TRUE, log)
          ELSE Spawns("helm init", log)
    /\ UNCHANGED <<cmd, input>>

\* index.ts 211-222, after `helm init --client-only`
helm_init_init ==
    /\ cmd = "helm_init"
    /\ Resumes("helm init")
    /\ LET log == SpawnSettled(FALSE)
       IN IF promise = "rejected" THEN exit(1, TRUE, log)
          ELSE IF result.code # 0 THEN exit(1, TRUE, log)
          ELSE exit(0, TRUE, log)
    /\ UNCHANGED <<cmd, input>>

\* index.ts 229-232, up to await getLatestGitTag
get_fab_version ==
    /\ cmd = "get_fab_version"
    /\ pc = "start"
    /\ Requests("lookup", calls)
    /\ UNCHANGED <<cmd, input>>

\* index.ts 232-236, after getLatestGitTag: exit(0, latestVersion) prints
\* the tag unless it is "" (98: if (message))
get_fab_version_latest ==
    /\ cmd = "get_fab_version"
    /\ Resumes("lookup")
    /\ LET r == getLatestGitTag(io)
       IN IF r = "resolved"
            THEN exit(0, io # "200 empty tag_name", Settled(r))
            ELSE exit(1, TRUE, Settled(r))
    /\ UNCHANGED <<cmd, input>>

\* index.ts 243-256, up to await getFabrikateVersion
download_fab ==
    /\ cmd = "download_fab"
    /\ pc = "start"
    /\ \E platform \in Platforms :
          /\ input' = [input EXCEPT !.platform = platform]
          /\ IF ~hostPlatformFab(platform)
               THEN exit(1, TRUE, calls)
               ELSE Requests("lookup", calls)
    /\ UNCHANGED cmd

\* index.ts 256-263, after getFabrikateVersion
download_fab_version ==
    /\ cmd = "download_fab"
    /\ Resumes("lookup")
    /\ LET r == getFabrikateVersion(io)
       IN IF r = "resolved"
            THEN Downloads(Settled(r))
            ELSE exit(1, TRUE, Settled(r))
    /\ UNCHANGED <<cmd, input>>

\* a handler that does not await downloadFile before it unzips
download_fab_downloaded_NoAwait ==
    /\ cmd = "download_fab"
    /\ pc = "download"
    /\ ~crashed
    /\ IF dlPromise = "rejected"
         THEN exit(1, TRUE, Settled("rejected"))
         ELSE Spawns("unzip", Settled("resolved"))
    /\ UNCHANGED <<cmd, input>>

\* index.ts 263-268, after downloadFile
download_fab_downloaded ==
    /\ cmd = "download_fab"
    /\ Resumes("download")
    /\ IF dlPromise = "rejected"
         THEN exit(1, TRUE, Settled("rejected"))
         ELSE Spawns("unzip", Settled("resolved"))
    /\ UNCHANGED <<cmd, input>>

\* index.ts 268-281, after unzip
download_fab_unzipped ==
    /\ cmd = "download_fab"
    /\ Resumes("unzip")
    /\ LET log == SpawnSettled(FALSE)
       IN IF promise = "rejected" THEN exit(1, TRUE, log)
          ELSE IF result.code # 0 THEN exit(1, TRUE, log)
          ELSE exit(0, TRUE, log)
    /\ UNCHANGED <<cmd, input>>

\* index.ts 288-303, up to await getLatestGitTag
download_spk ==
    /\ cmd = "download_spk"
    /\ pc = "start"
    /\ \E platform \in Platforms :
          /\ input' = [input EXCEPT !.platform = platform]
          /\ IF ~hostPlatformSpk(platform)
               THEN exit(1, TRUE, calls)
               ELSE Requests("lookup", calls)
    /\ UNCHANGED cmd

\* index.ts 303-314, after getLatestGitTag
download_spk_version ==
    /\ cmd = "download_spk"
    /\ Resumes("lookup")
    /\ LET r == getLatestGitTag(io)
       IN IF r = "resolved"
            THEN Downloads(Settled(r))
            ELSE exit(1, TRUE, Settled(r))
    /\ UNCHANGED <<cmd, input>>

\* index.ts 314-319, after downloadFile
download_spk_downloaded ==
    /\ cmd = "download_spk"
    /\ Resumes("download")
    /\ IF dlPromise = "rejected"
         THEN exit(1, TRUE, Settled("rejected"))
         ELSE exit(0, TRUE, Settled("resolved"))
    /\ UNCHANGED <<cmd, input>>

\* index.ts 327-342, up to await spawn("git", ["clone", PATBasedRepo]); a
\* throw in the try block is caught at 354-357, which calls exit(1)
git_connect ==
    /\ cmd = "git_connect"
    /\ pc = "start"
    /\ \E repo \in Repos, pat \in Pats :
          /\ input' = [input EXCEPT !.repo = repo, !.pat = pat]
          /\ IF ~assertIsTruthyString(repo) THEN exit(1, FALSE, calls)
             ELSE IF ~assertIsTruthyString(pat) THEN exit(1, FALSE, calls)
             ELSE IF ~MatchesHttp(repo) THEN exit(1, FALSE, calls)
             ELSE Spawns("git clone", calls)
    /\ UNCHANGED cmd

\* a handler whose .catch only logs the rejection and goes on to the pull
git_connect_cloned_LogsAndContinues ==
    /\ cmd = "git_connect"
    /\ Resumes("git clone")
    /\ Spawns("git pull", SpawnSettled(FALSE))
    /\ UNCHANGED <<cmd, input>>

\* index.ts 342-348, after git clone
git_connect_cloned ==
    /\ cmd = "git_connect"
    /\ Resumes("git clone")
    /\ LET log == SpawnSettled(FALSE)
       IN IF promise = "rejected" THEN exit(1, FALSE, log)
          ELSE Spawns("git pull", log)
    /\ UNCHANGED <<cmd, input>>

\* index.ts 348-358, after git pull
git_connect_pulled ==
    /\ cmd = "git_connect"
    /\ Resumes("git pull")
    /\ LET log == SpawnSettled(FALSE)
       IN IF promise = "rejected" THEN exit(1, FALSE, log)
          ELSE Returns(log)
    /\ UNCHANGED <<cmd, input>>

\* ---- the environment of a waiting handler

\* the awaited axios.get or fs.copy settles
IoSettles ==
    /\ Awaiting
    /\ pc \in IoSteps
    /\ io' \in (IF pc = "copy" THEN CopyOutcomes ELSE LookupOutcomes)
    /\ UNCHANGED <<cmd, pc, input, calls, exitCalls, said, spawnVars, dlVars>>

\* the child writes a chunk on its stdout or on its stderr. Only the output
\* of `helm version` decides anything (index.ts 202); the output of the other
\* children is at most printed (214, 270), so they are taken to write nothing
CmdChildWrites ==
    /\ Awaiting
    /\ pc = "helm version"
    /\ child = "running"
    /\ Len(EmittedOut) + Len(EmittedErr) < MaxChunks
    /\ \E data \in HelmChunks, toStdout \in BOOLEAN :
          IF toStdout
            THEN outPipe' = Append(outPipe, data) /\ UNCHANGED errPipe
            ELSE errPipe' = Append(errPipe, data) /\ UNCHANGED outPipe
    /\ UNCHANGED <<child, errorEv, exitEv, stdout, stderr, stdCombined, code,
                   promise, result, recv, events>>
    /\ UNCHANGED <<dlVars, cmdVars>>

CmdChildExits == Awaiting /\ ChildExits
CmdOnStdoutData == Awaiting /\ OnStdoutData
CmdOnStderrData == Awaiting /\ OnStderrData
CmdOnError == Awaiting /\ OnError
CmdOnExit == Awaiting /\ OnExit
CmdResponseArrives == Awaiting /\ ResponseArrives
CmdDataArrives == Awaiting /\ DataArrives
CmdBodyEnds == Awaiting /\ BodyEnds
CmdRequestFails == Awaiting /\ RequestFails
CmdFileWrite == Awaiting /\ FileWrite
CmdFileError == Awaiting /\ FileError

CmdNext ==
    \/ verify_access_token
    \/ verify_repo
    \/ init
    \/ init_copied
    \/ helm_init
    \/ helm_init_version
    \/ helm_init_init
    \/ get_fab_version
    \/ get_fab_version_latest
    \/ download_fab
    \/ download_fab_version
    \/ download_fab_downloaded
    \/ download_fab_unzipped
    \/ download_spk
    \/ download_spk_version
    \/ download_spk_downloaded
    \/ git_connect
    \/ git_connect_cloned
    \/ git_connect_pulled
    \/ IoSettles
    \/ CmdChildWrites
    \/ CmdChildExits
    \/ CmdOnStdoutData
    \/ CmdOnStderrData
    \/ CmdOnError
    \/ CmdOnExit
    \/ CmdResponseArrives
    \/ CmdDataArrives
    \/ CmdBodyEnds
    \/ CmdRequestFails
    \/ CmdFileWrite
    \/ CmdFileError

\* yargs dispatched one command; nothing has been read or started
CmdSpecInit ==
    /\ cmd \in Commands
    /\ pc = "start"
    /\ input = NoInput
    /\ io = "idle"
    /\ calls = <<>>
    /\ exitCalls = <<>>
    /\ said = FALSE
    /\ SpawnIdle
    /\ DlIdle

CmdSpec == CmdSpecInit /\ [][CmdNext]_vars


\* ---- claims about the commands

\* the command ended through exit with a nonzero code, called once
ExitedNonzero ==
    /\ pc = "exited"
    /\ Len(exitCalls) = 1
    /\ exitCalls[1] # 0

\* C11: in every command, an awaited call that was rejected (a child that
\* could not be launched, a failed download, release lookup or file copy) is
\* the last call the command made, and the command ended through exit with a
\* nonzero code: nothing is started after it.
C11_RejectionEndsTheCommand ==
    \A i \in 1..Len(calls) :
        calls[i].outcome = "rejected" => i = Len(calls) /\ ExitedNonzero

\* git clone ran, git pull could not be launched, and the command exited 1
C11_Witness ==
    /\ cmd = "git_connect"
    /\ Len(calls) = 2
    /\ calls[1].outcome = "resolved"
    /\ calls[2].name = "git pull"
    /\ calls[2].outcome = "rejected"
    /\ exitCalls = <<1>>


\* the awaited child of call i started, and its 'exit' event carried a
\* nonzero code
ExitedWithNonzeroCode(i) ==
    /\ calls[i].name \in SpawnSteps
    /\ calls[i].outcome = "resolved"
    /\ calls[i].exit # <<>>
    /\ calls[i].exit[1] \notin {0, Null}

\* C12: in every command, a child process that started and exited with a
\* nonzero code (git clone, git pull, helm version, helm init, unzip) is the
\* last call of the command, and the command ended through exit with a
\* nonzero code: no later step is started and the handler does not run on.
C12_NonzeroChildExitIsFatal ==
    \A i \in 1..Len(calls) :
        ExitedWithNonzeroCode(i) => i = Len(calls) /\ ExitedNonzero


\* the handler has run to its end: through exit, or by returning
HandlerEnded == pc \in {"exited", "returned"}

\* C13: every run of every command that has ended, ended by exactly one call
\* of exit(code, message): the handler never ends without calling exit, and
\* the code is 0 only when every awaited call resolved.
C13_EveryRunEndsThroughExit ==
    HandlerEnded =>
        /\ Len(exitCalls) = 1
        /\ exitCalls[1] = 0 =>
              \A i \in 1..Len(calls) : calls[i].outcome = "resolved"


\* REPO is an http(s) URL: it starts with the scheme that index.ts 338
\* rewrites, /^https?:\/\//i
IsHttpUrl(repo) ==
    \/ MatchesAtStart(repo, Str_httpSlashes)
    \/ MatchesAtStart(repo, Str_httpsSlashes)

\* the inputs the started command read fail one of the handler's tests
InputPreconditionFailed ==
    CASE cmd = "verify_access_token" -> input.pat = EmptyString
      [] cmd = "verify_repo" -> input.repo = EmptyString
      [] cmd = "git_connect" -> \/ input.repo = EmptyString
                                \/ input.pat = EmptyString
                                \/ ~MatchesHttp(input.repo)
      [] cmd = "helm_init" -> ~input.helm
      [] cmd = "download_fab" -> ~hostPlatformFab(input.platform)
      [] cmd = "download_spk" -> ~hostPlatformSpk(input.platform)
      [] OTHER -> FALSE

\* the release lookup answered 200 without a string tag_name, and the
\* handler has resumed
TagNameMissing == io = "200 no tag_name" /\ pc # "lookup"

\* C14: once a command has read inputs that fail its precondition (a variable
\* unset or empty, REPO not an http(s) URL, helm not on PATH, host OS not
\* recognized) it has exited with a nonzero code without issuing any call and
\* without its success message; after a release response without tag_name it
\* has exited nonzero with the lookup as its only call.
C14_PreconditionFailureStartsNothing ==
    pc # "start" =>
        /\ InputPreconditionFailed =>
              ExitedNonzero /\ calls = <<>> /\ ~said
        /\ (cmd = "git_connect" /\ ~IsHttpUrl(input.repo)) =>
              ExitedNonzero /\ calls = <<>> /\ ~said
        /\ TagNameMissing =>
              ExitedNonzero /\ Len(calls) = 1 /\ ~said


\* what is in flight: a child process that has not exited, a download or an
\* HTTP lookup (or copy) whose promise has not settled
ChildInFlight == child = "running"
DownloadInFlight == net # "idle" /\ dlPromise = "pending"
LookupInFlight == io = "pending"
NothingInFlight == ~ChildInFlight /\ ~DownloadInFlight /\ ~LookupInFlight

\* C15: within any command the calls are composed sequentially: a call is
\* issued only when no child process is running and no download or lookup is
\* pending, so a child process and a download (or a lookup) are never in
\* flight together, and no child is started while another one runs.
C15_CallsAreSequential ==
    /\ [](/\ ~(ChildInFlight /\ DownloadInFlight)
          /\ ~(ChildInFlight /\ LookupInFlight)
          /\ ~(DownloadInFlight /\ LookupInFlight))
    /\ [][Len(calls') > Len(calls) => NothingInFlight]_vars

\* unzip is running, started after the lookup and the download resolved
C15_Witness ==
    /\ cmd = "download_fab"
    /\ Len(calls) = 3
    /\ calls[1].outcome = "resolved"
    /\ calls[2].name = "download"
    /\ calls[2].outcome = "resolved"
    /\ calls[3].name = "unzip"
    /\ ChildInFlight


\* helm was found, `helm version` was launched and its combined output
\* matched, `helm init --client-only` was launched after it and ended as
\* initEnded says
HelmInitSteps(initEnded) ==
    /\ input.helm
    /\ Len(calls) = 2
    /\ calls[1].name = "helm version"
    /\ calls[1].outcome = "resolved"
    /\ calls[1].matched
    /\ calls[2].name = "helm init"
    /\ calls[2].outcome = "resolved"
    /\ initEnded

\* helm init is never started before the version check has passed
HelmInitAfterVersionCheck ==
    \A i \in 1..Len(calls) :
        calls[i].name = "helm init" =>
            i = 2 /\ calls[1].name = "helm version" /\ calls[1].matched

\* C16 as stated: helm_init exits with code 0 exactly when helm was found,
\* `helm version` matched and `helm init --client-only` then exited with
\* code 0; otherwise it exits with code 1; helm init is never started before
\* the version check has passed.
C16_ExitsZeroOnlyAfterInitExitedZero ==
    cmd = "helm_init" =>
        /\ HelmInitAfterVersionCheck
        /\ pc = "exited" =>
              /\ Len(exitCalls) = 1
              /\ exitCalls[1] \in {0, 1}
              /\ exitCalls[1] = 0 <=> HelmInitSteps(calls[2].exit = <<0>>)

\* C16, amended: helm_init exits with code 0 exactly when helm was found,
\* `helm version` matched and `helm init --client-only` then either exited
\* with code 0 or ended without a numeric exit code (which spawn reports as
\* code 0); otherwise it exits with code 1; helm init is never started
\* before the version check has passed.
C16_ExitsZeroOnlyAfterInitReportedZero ==
    cmd = "helm_init" =>
        /\ HelmInitAfterVersionCheck
        /\ pc = "exited" =>
              /\ Len(exitCalls) = 1
              /\ exitCalls[1] \in {0, 1}
              /\ exitCalls[1] = 0 <=>
                    HelmInitSteps(calls[2].exit \in {<<0>>, <<Null>>})

\* helm_init exited 0 after a `helm init` whose 'exit' event had no code
C16_Witness ==
    /\ cmd = "helm_init"
    /\ exitCalls = <<0>>
    /\ calls[1].matched
    /\ calls[2].exit = <<Null>>

====
